---- MODULE Spec2Model ----
(***************************************************************************)
(* Shape-level model of models/vanilla_vae.py (class VanillaVAE).          *)
(*                                                                         *)
(* A tensor is represented by its shape: <<N, C, H, W>> for an image batch *)
(* and <<B, F>> for a matrix.  A layer is represented by the constructor   *)
(* arguments that fix its shape behaviour.  Every public method is one     *)
(* action; the action records in `ret` what the call raised or returned.   *)
(* loss_function is the one method whose values (not shapes) matter; its   *)
(* arithmetic is carried out in fixed point, in units of 1/Scale.          *)
(***************************************************************************)
EXTENDS Integers, Sequences, FiniteSets, TLC

\* ------------------------------------------------------------------ bounds
MaxDepth == 2       \* longest hidden_dims list given to the constructor
MaxDim == 4         \* largest image height / width

\* ------------------------------------------------------- input domains
DefaultHiddenDims == <<32, 64, 128, 256, 512>>
HiddenDimsChoices == {SubSeq(DefaultHiddenDims, 1, n) : n \in 0..MaxDepth}
Channels == {1, 3}           \* in_channels, and the channels of a batch
LatentDims == {2}            \* latent_dim
CodeWidths == {2, 3}         \* the width of a z given to decode
BatchSizes == {1, 2}         \* batch sizes and num_samples
Devices == {"cpu", "cuda:9"} \* "cuda:9" stands for a device torch cannot use
Images == {<<n, c, h, w>> : n \in BatchSizes, c \in Channels,
                            h \in 1..MaxDim, w \in 1..MaxDim}
Codes == {<<b, d>> : b \in BatchSizes, d \in CodeWidths}

\* values handed to loss_function: a tensor is a sequence of numbers;
\* recons and input have one shape, and so have mu and log_var (one latent
\* dimension per batch row)
PixelValues == {0, 1}
MuValues == {0, 1}
LogVarValues == {0, 1}
KldWeights == {0, 2}
PixelCounts == {1}
LossRows == {1, 2}
Tensors(lengths, values) == UNION {[1..n -> values] : n \in lengths}
TensorsLike(t, values) == [1..Len(t) -> values]

\* ---------------------------------------------------------------- state
VARIABLES
  hidden_dims,           \* self.hidden_dims
  in_channels,           \* self.in_channels
  latent_dim,            \* self.latent_dim
  built,                 \* self.built
  training,              \* self.training (nn.Module), set by super().__init__()
  attrs,                 \* names of the layer attributes assigned so far
  encoder,               \* self.encoder: sequence of layers
  encoder_result_shape,  \* self.encoder_result_shape: <<C, H, W>>
  fc_mu,                 \* self.fc_mu: <<in_features, out_features>>
  fc_var,                \* self.fc_var
  decoder_input,         \* self.decoder_input
  decoder,               \* self.decoder: sequence of layers
  final_layer,           \* self.final_layer: sequence of layers
  output_layer,          \* self.output_layer: sequence of layers
  ret,                   \* the call being returned: method, argument,
                         \* exception raised, value returned
  completed,             \* history: some build call has returned normally
  encoded_size,          \* history: <<H, W>> of the dummy batch of the last
                         \* build that got past line 45
  output_size            \* history: <<H, W>> of the dummy batch of the last
                         \* build that got past line 92

config == <<hidden_dims, in_channels, latent_dim>>
layers == <<attrs, encoder, encoder_result_shape, fc_mu, fc_var,
            decoder_input, decoder, final_layer, output_layer>>
history == <<completed, encoded_size, output_size>>
vars == <<config, built, training, layers, ret, history>>

\* ------------------------------------------------- framework primitives
\* A module is constructed in training mode (its own `training` attribute),
\* whatever the mode of the module it is then assigned to.

\* torch.nn.Conv2d(cin, cout, kernel_size, stride, padding)
Conv2d(cin, cout, k, s, p) ==
  [type |-> "Conv2d", cin |-> cin, cout |-> cout, k |-> k, s |-> s,
   p |-> p, op |-> 0, training |-> TRUE]

\* torch.nn.ConvTranspose2d(cin, cout, kernel_size, stride, padding,
\* output_padding)
ConvTranspose2d(cin, cout, k, s, p, op) ==
  [type |-> "ConvTranspose2d", cin |-> cin, cout |-> cout, k |-> k,
   s |-> s, p |-> p, op |-> op, training |-> TRUE]

\* torch.nn.BatchNorm2d(num_features)
BatchNorm2d(c) ==
  [type |-> "BatchNorm2d", cin |-> c, cout |-> c, k |-> 0, s |-> 0,
   p |-> 0, op |-> 0, training |-> TRUE]

\* torch.nn.LeakyReLU(): elementwise, any shape
LeakyReLU(c) ==
  [type |-> "LeakyReLU", cin |-> c, cout |-> c, k |-> 0, s |-> 0,
   p |-> 0, op |-> 0, training |-> TRUE]

\* torch.nn.Linear(in_features, out_features)
Linear(fin, fout) == <<fin, fout>>

\* np.prod of a shape
RECURSIVE Prod(_)
Prod(shape) == IF shape = <<>> THEN 1 ELSE Head(shape) * Prod(Tail(shape))

\* output size of a convolution along one axis
ConvOut(x, k, s, p) == ((x + 2 * p - k) \div s) + 1

\* output size of a transposed convolution along one axis
ConvTOut(x, k, s, p, op) == (x - 1) * s - 2 * p + k + op

Ok(t) == [err |-> "none", t |-> t]
Raise(e) == [err |-> e, t |-> <<>>]

\* one layer applied to an image batch t = <<N, C, H, W>>
ApplyLayer(l, t) ==
  IF l.type # "LeakyReLU" /\ t[2] # l.cin THEN Raise("RuntimeError")
  ELSE IF l.type = "Conv2d" THEN
    IF t[3] + 2 * l.p < l.k \/ t[4] + 2 * l.p < l.k
    THEN Raise("RuntimeError")
    ELSE Ok(<<t[1], l.cout, ConvOut(t[3], l.k, l.s, l.p),
              ConvOut(t[4], l.k, l.s, l.p)>>)
  ELSE IF l.type = "ConvTranspose2d" THEN
    Ok(<<t[1], l.cout, ConvTOut(t[3], l.k, l.s, l.p, l.op),
         ConvTOut(t[4], l.k, l.s, l.p, l.op)>>)
  ELSE IF l.type = "BatchNorm2d" THEN
    \* in training mode it needs more than one value per channel
    IF l.training /\ t[1] * t[3] * t[4] = 1 THEN Raise("ValueError")
    ELSE Ok(t)
  ELSE Ok(t)

\* nn.Sequential.forward: the layers in order, stopping at the first error
RECURSIVE Sequential(_, _)
Sequential(ls, t) ==
  IF ls = <<>> THEN Ok(t)
  ELSE LET r == ApplyLayer(Head(ls), t)
       IN IF r.err # "none" THEN r ELSE Sequential(Tail(ls), r.t)

\* nn.Module.train(mode) on the layers of a Sequential
RECURSIVE SetTraining(_, _)
SetTraining(ls, mode) ==
  IF ls = <<>> THEN <<>>
  ELSE <<[Head(ls) EXCEPT !.training = mode]>> \o SetTraining(Tail(ls), mode)

\* a Linear that does not check the width of its input
ApplyLinearUnchecked(l, t) == Ok(<<t[1], l[2]>>)

\* nn.Linear.forward on a matrix t = <<B, F>>
ApplyLinear(l, t) ==
  IF t[2] # l[1] THEN Raise("RuntimeError") ELSE Ok(<<t[1], l[2]>>)

\* torch.flatten(t, start_dim=1)
Flatten(t) == <<t[1], Prod(Tail(t))>>

\* t.view(-1, *shape) of a matrix t = <<B, F>>
View(t, shape) ==
  IF (t[1] * t[2]) % Prod(shape) # 0 THEN Raise("RuntimeError")
  ELSE Ok(<<(t[1] * t[2]) \div Prod(shape)>> \o shape)

\* Module.to(device) / Tensor.to(device): only "cpu" names a usable device
DeviceOk(device) == device = "cpu"
\* hidden_dims[::-1]
RECURSIVE Reverse(_)
Reverse(q) == IF q = <<>> THEN <<>> ELSE Reverse(Tail(q)) \o <<Head(q)>>

\* ------------------------------------------------------------- build
\* lines 31-44: one Conv2d / BatchNorm2d / LeakyReLU block per hidden dim
RECURSIVE EncoderLayers(_, _)
EncoderLayers(cin, hdims) ==
  IF hdims = <<>> THEN <<>>
  ELSE <<Conv2d(cin, Head(hdims), 3, 2, 1), BatchNorm2d(Head(hdims)),
         LeakyReLU(Head(hdims))>> \o EncoderLayers(Head(hdims), Tail(hdims))

\* lines 58-71: one ConvTranspose2d block per adjacent pair of hidden_dims_r
RECURSIVE DecoderLayers(_)
DecoderLayers(hr) ==
  IF Len(hr) < 2 THEN <<>>
  ELSE <<ConvTranspose2d(hr[1], hr[2], 3, 2, 1, 1), BatchNorm2d(hr[2]),
         LeakyReLU(hr[2])>> \o DecoderLayers(Tail(hr))

\* lines 73-82
FinalLayers(c) ==
  <<ConvTranspose2d(c, c, 3, 2, 1, 1), BatchNorm2d(c), LeakyReLU(c)>>

\* the kernel computed without the output layer's padding
KernelSizeNoPadding(required_dim, current_dim) ==
  (-((required_dim - 1) * 1 + 1 - current_dim)) + 1

\* line 89: int(-((required_dim - 1) * 1 + 1 - 2*1 - current_dim) / 1 + 1)
KernelSize(required_dim, current_dim) ==
  (-((required_dim - 1) * 1 + 1 - 2 * 1 - current_dim)) + 1

\* an output layer that keeps the last hidden dim as its channel count
OutputLayersHidden(cin, cout, kernel) == <<Conv2d(cin, cin, kernel, 1, 1)>>

\* lines 91-92
OutputLayers(cin, cout, kernel) == <<Conv2d(cin, cout, kernel, 1, 1)>>

\* line 84: final_layer(decoder(decoder_input(mu).view(-1, *shape)))
DecoderPass(dinput, shape, dec, final, z) ==
  LET a == ApplyLinear(dinput, z)
      v == IF a.err # "none" THEN a ELSE View(a.t, shape)
      d == IF v.err # "none" THEN v ELSE Sequential(dec, v.t)
  IN IF d.err # "none" THEN d ELSE Sequential(final, d.t)

\* a build whose fc_var takes latent_dim inputs
BuildStateVarLatent(line, err, enc, ers, fc, din, dec, fin, outl) ==
  [line |-> line, err |-> err, encoder |-> enc,
   encoder_result_shape |-> ers, fc_mu |-> fc,
   fc_var |-> IF fc = <<>> THEN fc ELSE Linear(latent_dim, fc[2]),
   decoder_input |-> din, decoder |-> dec, final_layer |-> fin,
   output_layer |-> outl]

\* What build has assigned when it stops at source line `line` raising `err`
\* (line 0, err "none": it returns).
BuildState(line, err, enc, ers, fc, din, dec, fin, outl) ==
  [line |-> line, err |-> err, encoder |-> enc,
   encoder_result_shape |-> ers, fc_mu |-> fc, fc_var |-> fc,
   decoder_input |-> din, decoder |-> dec, final_layer |-> fin,
   output_layer |-> outl]

\* lines 85-94, given the dummy decoder result r84 of line 84
BuildOutput(enc, ers, fc, din, dec, fin, hr, r84, required_dim, device) ==
  IF r84.err # "none"
  THEN BuildState(84, r84.err, enc, ers, fc, din, dec, fin, <<>>)
  ELSE LET kernel == KernelSize(required_dim, r84.t[4])
           outl == OutputLayers(hr[Len(hr)], in_channels, kernel)
       IN IF ~DeviceOk(device)
          THEN BuildState(94, "RuntimeError", enc, ers, fc, din, dec, fin,
                          outl)
          ELSE BuildState(0, "none", enc, ers, fc, din, dec, fin, outl)

\* lines 52-84, given the dummy latent code of line 50
BuildDecoder(enc, ers, fc, dummy_mu, required_dim, device) ==
  LET din == Linear(latent_dim, Prod(ers))
      hr == Reverse(hidden_dims)
      dec == DecoderLayers(hr)
  IN IF dummy_mu.err # "none"
     THEN BuildState(50, dummy_mu.err, enc, ers, fc, <<>>, <<>>, <<>>, <<>>)
     ELSE IF hr = <<>>   \* hidden_dims_r[-1] of an empty list
     THEN BuildState(74, "IndexError", enc, ers, fc, din, dec, <<>>, <<>>)
     ELSE BuildOutput(enc, ers, fc, din, dec, FinalLayers(hr[Len(hr)]), hr,
                      DecoderPass(din, ers, dec, FinalLayers(hr[Len(hr)]),
                                  dummy_mu.t),
                      required_dim, device)

\* lines 46-50, given the dummy encoder result r45 of line 45
BuildLatent(enc, r45, required_dim, device) ==
  IF r45.err # "none"
  THEN BuildState(45, r45.err, enc, <<>>, <<>>, <<>>, <<>>, <<>>, <<>>)
  ELSE BuildDecoder(enc, Tail(r45.t),
                    Linear(Prod(Tail(r45.t)), latent_dim),
                    ApplyLinear(Linear(Prod(Tail(r45.t)), latent_dim),
                                Flatten(r45.t)),
                    required_dim, device)

\* The body of build, lines 28-94, as far as it gets: `line` is the line that
\* raised (0 when build returns) and the other fields are the values assigned
\* by the lines above it.
BuildSteps(dummy_batch, device) ==
  BuildLatent(EncoderLayers(in_channels, hidden_dims),
              Sequential(EncoderLayers(in_channels, hidden_dims),
                         dummy_batch),
              dummy_batch[4], device)

\* build got past source line n
Past(b, n) == b.line = 0 \/ b.line > n

\* ret: the method called, its argument, the exception raised ("none": the
\* call returned), for build the source line that raised, the shapes of the
\* tensors returned, and the dict returned
NoCall == [op |-> "none", x |-> <<>>, raised |-> "none", line |-> 0,
           out |-> <<>>, dict |-> <<>>]
Call(op, x, raised, line, out, dict) ==
  [op |-> op, x |-> x, raised |-> raised, line |-> line, out |-> out,
   dict |-> dict]

\* a build that clears built when it raises
BuiltAfterReset(b) == Past(b, 93)

\* a build that sets built right after the dummy encoder pass
BuiltAfterEncoder(b) == IF Past(b, 45) THEN TRUE ELSE built

\* line 93: self.built = True, reached only when no line above it raised
BuiltAfter(b) == IF Past(b, 93) THEN TRUE ELSE built

\* the layer attributes assigned by a build that stops as b says
Assigned(b) ==
  {"encoder"}
    \cup (IF Past(b, 46) THEN {"encoder_result_shape"} ELSE {})
    \cup (IF Past(b, 49) THEN {"fc_mu", "fc_var"} ELSE {})
    \cup (IF Past(b, 54) THEN {"decoder_input"} ELSE {})
    \cup (IF Past(b, 71) THEN {"decoder"} ELSE {})
    \cup (IF Past(b, 82) THEN {"final_layer"} ELSE {})
    \cup (IF Past(b, 92) THEN {"output_layer"} ELSE {})

\* VanillaVAE.build(dummy_batch, device)
Build(dummy_batch, device) ==
  /\ ret.op = "none"
  /\ \E b \in {BuildSteps(dummy_batch, device)} :
        /\ attrs' = attrs \cup Assigned(b)
        /\ encoder' = b.encoder
        /\ encoder_result_shape' =
             IF Past(b, 46) THEN b.encoder_result_shape
             ELSE encoder_result_shape
        /\ fc_mu' = IF Past(b, 49) THEN b.fc_mu ELSE fc_mu
        /\ fc_var' = IF Past(b, 49) THEN b.fc_var ELSE fc_var
        /\ decoder_input' = IF Past(b, 54) THEN b.decoder_input
                            ELSE decoder_input
        /\ decoder' = IF Past(b, 71) THEN b.decoder ELSE decoder
        /\ final_layer' = IF Past(b, 82) THEN b.final_layer ELSE final_layer
        /\ output_layer' = IF Past(b, 92) THEN b.output_layer
                           ELSE output_layer
        /\ built' = BuiltAfter(b)
        /\ completed' = IF b.line = 0 THEN TRUE ELSE completed
        /\ encoded_size' = IF Past(b, 45) THEN SubSeq(dummy_batch, 3, 4)
                           ELSE encoded_size
        /\ output_size' = IF Past(b, 92) THEN SubSeq(dummy_batch, 3, 4)
                          ELSE output_size
        /\ ret' = Call("build", dummy_batch, b.err, b.line, <<>>, <<>>)
  /\ UNCHANGED <<config, training>>

\* ------------------------------------------------------------ methods
\* A method's outcome: the exception it raises ("none": it returns) and the
\* shapes of the tensors it returns.
Returns(out) == [err |-> "none", out |-> out]
Raises(e) == [err |-> e, out |-> <<>>]

\* lines 96-112
encode(input) ==
  IF ~built THEN Raises("AttributeError")
  ELSE LET r == Sequential(encoder, input)
           flat == Flatten(r.t)
           mu == ApplyLinear(fc_mu, flat)
           log_var == ApplyLinear(fc_var, flat)
       IN IF r.err # "none" THEN Raises(r.err)
          ELSE IF mu.err # "none" THEN Raises(mu.err)
          ELSE IF log_var.err # "none" THEN Raises(log_var.err)
          ELSE Returns(<<mu.t, log_var.t>>)

\* lines 114-127
decode(z) ==
  IF ~built THEN Raises("AttributeError")
  ELSE LET d == DecoderPass(decoder_input, encoder_result_shape, decoder,
                            final_layer, z)
           o == IF d.err # "none" THEN d ELSE Sequential(output_layer, d.t)
       IN IF o.err # "none" THEN Raises(o.err) ELSE Returns(<<o.t>>)

\* broadcasting of two matrix shapes in an elementwise operation
Broadcast(a, b) ==
  IF \A i \in 1..2 : a[i] = b[i] \/ a[i] = 1 \/ b[i] = 1
  THEN Ok([i \in 1..2 |-> IF a[i] = 1 THEN b[i] ELSE a[i]])
  ELSE Raise("RuntimeError")

\* lines 129-139: eps * std + mu, eps and std of logvar's shape
reparameterize(mu, logvar) ==
  LET r == Broadcast(logvar, mu)
  IN IF r.err # "none" THEN Raises(r.err) ELSE Returns(<<r.t>>)

\* a forward that returns mu in the place of the input
forward_swapped(input) ==
  IF ~built THEN Raises("AttributeError")
  ELSE LET e == encode(input)
           z == reparameterize(e.out[1], e.out[2])
           d == decode(z.out[1])
       IN IF e.err # "none" THEN e
          ELSE IF z.err # "none" THEN z
          ELSE IF d.err # "none" THEN d
          ELSE Returns(<<d.out[1], e.out[1], input, e.out[2]>>)

\* lines 141-145
forward(input) ==
  IF ~built THEN Raises("AttributeError")
  ELSE LET e == encode(input)
           z == reparameterize(e.out[1], e.out[2])
           d == decode(z.out[1])
       IN IF e.err # "none" THEN e
          ELSE IF z.err # "none" THEN z
          ELSE IF d.err # "none" THEN d
          ELSE Returns(<<d.out[1], input, e.out[1], e.out[2]>>)

\* lines 174-190
sample(num_samples, current_device) ==
  LET z == <<num_samples, latent_dim>>
  IN IF ~DeviceOk(current_device) THEN Raises("RuntimeError")
     ELSE decode(z)

\* lines 192-199
generate(x) ==
  LET f == forward(x)
  IN IF f.err # "none" THEN f ELSE Returns(<<f.out[1]>>)

\* fixed-point unit of the floating-point values of loss_function
Scale == 1000

RECURSIVE Sum(_)
Sum(q) == IF q = <<>> THEN 0 ELSE Head(q) + Sum(Tail(q))

\* torch.exp, in units of 1/Scale
Exp(x) == CASE x = 0 -> 1000 [] x = 1 -> 2718

\* line 165: F.mse_loss(recons, input), the mean of the squared differences
MseLoss(recons, input) ==
  Sum([i \in 1..Len(recons) |->
         Scale * (recons[i] - input[i]) * (recons[i] - input[i])])
    \div Len(recons)

\* line 169: torch.mean(-0.5 * torch.sum(1 + log_var - mu ** 2
\*                                        - log_var.exp(), dim = 1), dim = 0)
KldLoss(mu, log_var) ==
  Sum([i \in 1..Len(mu) |->
         (-(Scale + Scale * log_var[i] - Scale * mu[i] * mu[i]
            - Exp(log_var[i]))) \div 2])
    \div Len(mu)

\* line 172: the dict returned
LossDict(loss, recons_loss, kld_loss) ==
  [k \in {"loss", "Reconstruction_Loss", "KLD"} |->
     CASE k = "loss" -> loss
       [] k = "Reconstruction_Loss" -> recons_loss
       [] k = "KLD" -> -kld_loss]

\* a loss_function without the check of line 157
loss_function_unguarded(recons, input, mu, log_var, M_N) ==
  LET kld_weight == M_N
      recons_loss == MseLoss(recons, input)
      kld_loss == KldLoss(mu, log_var)
      loss == recons_loss + kld_weight * kld_loss
  IN [err |-> "none", dict |-> LossDict(loss, recons_loss, kld_loss)]

\* lines 147-172
loss_function(recons, input, mu, log_var, M_N) ==
  IF ~built THEN [err |-> "AttributeError", dict |-> <<>>]
  ELSE LET kld_weight == M_N
           recons_loss == MseLoss(recons, input)
           kld_loss == KldLoss(mu, log_var)
           loss == recons_loss + kld_weight * kld_loss
       IN [err |-> "none", dict |-> LossDict(loss, recons_loss, kld_loss)]

\* the methods as steps ---------------------------------------------------
Method(op, x, r) ==
  /\ ret.op = "none"
  /\ ret' = Call(op, x, r.err, 0, r.out, <<>>)
  /\ UNCHANGED <<config, built, training, layers, history>>

Encode(input) == Method("encode", input, encode(input))

Decode(z) == Method("decode", z, decode(z))

Reparameterize(mu, logvar) ==
  Method("reparameterize", mu, reparameterize(mu, logvar))

Forward(input) == Method("forward", input, forward(input))

Sample(num_samples, current_device) ==
  Method("sample", <<num_samples, current_device>>,
         sample(num_samples, current_device))

Generate(x) == Method("generate", x, generate(x))

LossFunction(recons, input, mu, log_var, M_N) ==
  /\ ret.op = "none"
  /\ \E r \in {loss_function(recons, input, mu, log_var, M_N)} :
       ret' = Call("loss_function", <<M_N>>, r.err, 0, <<>>, r.dict)
  /\ UNCHANGED <<config, built, training, layers, history>>

\* nn.Module.train(mode), inherited through BaseVAE: sets self.training and
\* the mode of every layer assigned so far
SetMode(mode) ==
  /\ ret.op = "none"
  /\ training' = mode
  /\ encoder' = SetTraining(encoder, mode)
  /\ decoder' = SetTraining(decoder, mode)
  /\ final_layer' = SetTraining(final_layer, mode)
  /\ output_layer' = SetTraining(output_layer, mode)
  /\ UNCHANGED <<config, built, attrs, encoder_result_shape, fc_mu, fc_var,
                 decoder_input, ret, history>>

\* nn.Module.train()
Train == SetMode(TRUE)

\* nn.Module.eval()
Eval == SetMode(FALSE)

\* the caller takes what the call returned or raised; the object is used by
\* one caller at a time
Return ==
  /\ ret.op # "none"
  /\ ret' = NoCall
  /\ UNCHANGED <<config, built, training, layers, history>>

\* ------------------------------------------------------ specification
\* lines 11-25: the state after VanillaVAE(in_channels, latent_dim, hidden_dims)
Init ==
  /\ hidden_dims \in HiddenDimsChoices
  /\ in_channels \in Channels
  /\ latent_dim \in LatentDims
  /\ built = FALSE
  /\ training = TRUE
  /\ attrs = {}
  /\ encoder = <<>>
  /\ encoder_result_shape = <<>>
  /\ fc_mu = <<>>
  /\ fc_var = <<>>
  /\ decoder_input = <<>>
  /\ decoder = <<>>
  /\ final_layer = <<>>
  /\ output_layer = <<>>
  /\ ret = NoCall
  /\ completed = FALSE
  /\ encoded_size = <<>>
  /\ output_size = <<>>

Next ==
  \/ \E dummy_batch \in Images, device \in Devices : Build(dummy_batch, device)
  \/ \E input \in Images : Encode(input)
  \/ \E z \in Codes : Decode(z)
  \/ \E mu \in Codes, logvar \in Codes : Reparameterize(mu, logvar)
  \/ \E input \in Images : Forward(input)
  \/ \E n \in BatchSizes, device \in Devices : Sample(n, device)
  \/ \E x \in Images : Generate(x)
  \/ \E recons \in Tensors(PixelCounts, PixelValues),
        mu \in Tensors(LossRows, MuValues), M_N \in KldWeights :
     \E input \in TensorsLike(recons, PixelValues),
        log_var \in TensorsLike(mu, LogVarValues) :
       LossFunction(recons, input, mu, log_var, M_N)
  \/ Train
  \/ Eval
  \/ Return

Spec == Init /\ [][Next]_vars
\* ------------------------------------------------------------- claims
GuardedMethods ==
  {"encode", "decode", "forward", "loss_function", "sample", "generate"}
LayerNames ==
  {"encoder", "fc_mu", "fc_var", "decoder_input", "decoder", "final_layer",
   "output_layer"}

\* the image x has the channels, height and width of the batch of the last
\* build that constructed the output layer
LikeBuildBatch(x) == x[2] = in_channels /\ <<x[3], x[4]>> = output_size

\* the encoder's layers are in training mode
EncoderTraining == \E i \in 1..Len(encoder) : encoder[i].training

\* in training mode the encoder's last BatchNorm2d sees one value per channel
SingleValue(x) ==
  EncoderTraining
    /\ x[1] * encoder_result_shape[2] * encoder_result_shape[3] = 1

\* the width the decoder stack (decoder_input to final_layer) produces
CurrentDim ==
  DecoderPass(decoder_input, encoder_result_shape, decoder, final_layer,
              <<1, latent_dim>>).t[4]

CeilHalf(x) == (x + 1) \div 2
RECURSIVE CeilHalfIter(_, _)
CeilHalfIter(n, x) == IF n = 0 THEN x ELSE CeilHalfIter(n - 1, CeilHalf(x))
RECURSIVE Pow2(_)
Pow2(n) == IF n = 0 THEN 1 ELSE 2 * Pow2(n - 1)

C2_Claim ==
  (built /\ ret.op = "generate" /\ LikeBuildBatch(ret.x)
     /\ ret.raised = "none")
    => ret.out[1] = ret.x

\* C3: once a build call has completed built is True, no step ever resets
\* it, and with built True encode, decode, forward, sample and generate do
\* not raise AttributeError.
C3_Theorem ==
  /\ [](completed => built)
  /\ [][built => built']_vars
  /\ []((built /\ ret.op \in GuardedMethods \ {"loss_function"})
          => ret.raised # "AttributeError")

\* a build completed and a later build raised: built is still True
C3_Witness ==
  /\ completed
  /\ built
  /\ ret.op = "build"
  /\ ret.line = 45

\* what C4 promises of encode and forward on an image batch x
C4_Result ==
  /\ ret.raised = "none"
  /\ ret.op = "encode" =>
       ret.out = <<<<ret.x[1], latent_dim>>, <<ret.x[1], latent_dim>>>>
  /\ ret.op = "forward" =>
       /\ Len(ret.out) = 4
       /\ ret.out[2] = ret.x
       /\ ret.out[3] = <<ret.x[1], latent_dim>>
       /\ ret.out[4] = <<ret.x[1], latent_dim>>

\* C4 as stated: after build, encode and forward on a batch of N images of
\* the build batch's channels, height and width return [mu, log_var] of
\* shape [N, latent_dim] each, and [reconstruction, input, mu, log_var].
C4_Original ==
  (built /\ ret.op \in {"encode", "forward"} /\ LikeBuildBatch(ret.x))
    => C4_Result

\* C4 amended: they do so unless the encoder is in training mode and the
\* batch leaves a single value per channel at the end of the encoder (N = 1
\* and an encoder output of 1 x 1); then BatchNorm2d raises ValueError.
C4_Amended ==
  (built /\ ret.op \in {"encode", "forward"} /\ LikeBuildBatch(ret.x))
    => IF SingleValue(ret.x) THEN ret.raised = "ValueError" ELSE C4_Result

\* forward returned four tensors for a batch of two images whose encoder
\* output is 1 x 1, in training mode
C4_Witness ==
  /\ built
  /\ EncoderTraining
  /\ ret.op = "forward"
  /\ ret.raised = "none"
  /\ LikeBuildBatch(ret.x)
  /\ ret.x[1] = 2
  /\ encoder_result_shape[2] * encoder_result_shape[3] = 1

\* C5: after build, decode(z) for z of shape [B, latent_dim] returns B
\* images of in_channels channels, and sample(num_samples, device) returns
\* num_samples images of in_channels channels and of the build batch's width.
C5_Theorem ==
  /\ (built /\ ret.op = "decode" /\ ret.x[2] = latent_dim) =>
       /\ ret.raised = "none"
       /\ ret.out[1][1] = ret.x[1]
       /\ ret.out[1][2] = in_channels
  /\ (built /\ ret.op = "sample" /\ DeviceOk(ret.x[2])) =>
       /\ ret.raised = "none"
       /\ ret.out[1][1] = ret.x[1]
       /\ ret.out[1][2] = in_channels
       /\ ret.out[1][4] = output_size[2]

\* sample returned two images after a build on a batch of width 3 with two
\* hidden dims
C5_Witness ==
  /\ built
  /\ ret.op = "sample"
  /\ ret.raised = "none"
  /\ ret.x[1] = 2
  /\ output_size[2] = 3
  /\ Len(hidden_dims) = 2

\* C6 as stated: loss_function returns a dict of exactly the keys loss,
\* Reconstruction_Loss and KLD with loss = Reconstruction_Loss + M_N * KLD.
C6_Claim ==
  (built /\ ret.op = "loss_function") =>
    /\ ret.raised = "none"
    /\ DOMAIN ret.dict = {"loss", "Reconstruction_Loss", "KLD"}
    /\ ret.dict["loss"] =
         ret.dict["Reconstruction_Loss"] + ret.x[1] * ret.dict["KLD"]

\* C7: after a build that constructed the output layer from a batch of width
\* required with n hidden dims, the encoder output width is the n-fold
\* iterate of ceil(x/2) on required, the decoder stack yields
\* current = 2^n times that, current >= required, the kernel is
\* current - required + 3 with 3 <= kernel <= current + 2, and decode
\* yields width required.
C7_Theorem ==
  (ret.op = "build" /\ Past(ret, 92)) =>
    LET n == Len(hidden_dims)
        required == ret.x[4]
        width == encoder_result_shape[3]
        kernel == output_layer[1].k
    IN /\ n >= 1
       /\ width = CeilHalfIter(n, required)
       /\ CurrentDim = Pow2(n) * width
       /\ CurrentDim >= required
       /\ kernel = CurrentDim - required + 3
       /\ 3 <= kernel
       /\ kernel <= CurrentDim + 2
       /\ decode(<<1, latent_dim>>).err = "none"
       /\ decode(<<1, latent_dim>>).out[1][4] = required

\* a build returned for a batch of width 3 and two hidden dims: the decoder
\* stack yields width 4 and the kernel is 4
C7_Witness ==
  /\ ret.op = "build"
  /\ ret.line = 0
  /\ ret.x[4] = 3
  /\ Len(hidden_dims) = 2
  /\ output_layer[1].k = 4
EncoderShapeDiffers(x) ==
  LET r == Sequential(SetTraining(encoder, FALSE), x)
  IN r.err # "none" \/ Tail(r.t) # encoder_result_shape

\* the flattened encoder output for x has another size than fc_mu takes
EncoderSizeDiffers(x) ==
  LET r == Sequential(SetTraining(encoder, FALSE), x)
  IN r.err # "none" \/ Prod(Tail(r.t)) # Prod(encoder_result_shape)

\* C10 as stated: after build on a batch of width W0, forward(x) for x of
\* width W # W0 fails when the encoder output shape for x differs from
\* encoder_result_shape, and otherwise returns a reconstruction of width W0,
\* not W.
C10_Original ==
  (built /\ ret.op = "forward" /\ ret.x[4] # output_size[2]) =>
    /\ EncoderShapeDiffers(ret.x) => ret.raised # "none"
    /\ ret.raised = "none" =>
         ret.out[1][4] = output_size[2] /\ ret.out[1][4] # ret.x[4]

\* C10 amended: forward(x) fails when the flattened size of the encoder
\* output for x differs from the product of encoder_result_shape (or x has
\* the wrong channel count), and whenever it returns the reconstruction has
\* width W0, not W; no method changes encoder_result_shape, the output
\* layer, latent_dim, hidden_dims or in_channels.
C10_Amended ==
  /\ []((built /\ ret.op = "forward" /\ ret.x[4] # output_size[2]) =>
          /\ EncoderSizeDiffers(ret.x) => ret.raised # "none"
          /\ ret.raised = "none" =>
               ret.out[1][4] = output_size[2] /\ ret.out[1][4] # ret.x[4])
  /\ [][ret'.op \in GuardedMethods =>
          UNCHANGED <<encoder_result_shape, output_layer, latent_dim,
                      hidden_dims, in_channels>>]_vars

\* forward returned for an x whose height and width are those of the build
\* batch exchanged: the encoder output shape differs, its size does not
C10_Witness ==
  /\ built
  /\ ret.op = "forward"
  /\ ret.raised = "none"
  /\ ret.x[4] # output_size[2]
  /\ EncoderShapeDiffers(ret.x)
  /\ ret.out[1][4] = output_size[2]
====
